---- MODULE Spec2Model ----
(***************************************************************************)
(* Model of the HTTP service of app.ts: one Express application with the  *)
(* single route GET "/", loaded either as the program's entry point (and   *)
(* then bound to PORT) or as a library by the test harness (app.test.ts,   *)
(* which drives it through supertest on an ephemeral port).                *)
(*                                                                         *)
(* app.ts consists of calls into Express (express(), app.get, res.send,    *)
(* app.listen); each operator below that models such a call carries the    *)
(* behaviour Express gives to that call.  The major version of Express is  *)
(* not fixed by the sources, so it is a choice made once at Init.          *)
(***************************************************************************)
EXTENDS Integers, Sequences, FiniteSets, TLC

\* ------------------------------------------------------------------ bounds
\* Number of operating-system processes that load app.ts.
NumProcs == 2

Procs == 1..NumProcs

\* ------------------------------------------------------- program constants
\* app.ts:4  const PORT = 8000
PORT == 8000

\* app.ts:7  the literal handed to res.send
HelloText == "Hello from Express on Bun!"

\* app.ts:12 the line the listen callback prints
ListeningLine == "Express server listening on http://localhost:8000"

\* app.ts:1  import express from "express": the installed major version
ExpressMajors == {4, 5}

\* ------------------------------------------------------------ the requests
\* Request methods a client can send.
Methods == {"GET", "HEAD", "POST", "OPTIONS"}

\* Request targets, as sequences of characters (path, then ?query).
Urls == { <<"/">>, <<"/", "?", "x">>, <<"/", "n", "o">> }

\* An entity tag is a sequence of strings: <<>> is "no tag", a weak tag
\* starts with "W/".  A request's If-None-Match is a sequence of tags.
Star == << <<"*">> >>

\* ETag of a body, as Express's etag function derives it from the content:
\* a weak validator that is the same for equal bodies only.
ETagOf(body) == <<"W/">> \o body

\* res.send(HelloText) sends this body: one chunk, the literal.
HelloBody == <<HelloText>>

IfNoneMatchValues ==
    { <<>>,                                 \* header absent
      Star,                                 \* If-None-Match: *
      << ETagOf(HelloBody) >>,              \* the tag of an earlier answer
      << <<"W/", "stale">> >> }             \* a tag of something else

CacheControlValues == { "", "no-cache" }

IfModifiedSinceValues == { "", "Tue, 03 Nov 2026 00:00:00 GMT" }

\* The header sets a request carries: every combination of the three
\* headers above in which at most one of Cache-Control and
\* If-Modified-Since is present.
Headers ==
    { h \in [ ifNoneMatch : IfNoneMatchValues,
              cacheControl : CacheControlValues,
              ifModifiedSince : IfModifiedSinceValues ] :
        h.cacheControl = "" \/ h.ifModifiedSince = "" }

Requests == [ method : Methods, url : Urls, headers : Headers ]

NoHeaders == [ ifNoneMatch |-> <<>>, cacheControl |-> "", ifModifiedSince |-> "" ]

\* "no request yet": a record of the same shape with an empty method.
NoReq == [ method |-> "", url |-> <<>>, headers |-> NoHeaders ]

\* "no response yet"
NoRes == [ status |-> 0, body |-> <<>>, contentType |-> <<>>,
           etag |-> <<>>, allow |-> {} ]

NoProc == 0

VARIABLES
    expressMajor,   \* major version of the installed express package
    pc,             \* pc[p]: "notStarted", "binding", "listening", "imported", "exited"
    mode,           \* mode[p]: "", "main" (require.main === module), "imported"
    app,            \* app[p]: the router stack of p's Express application
    portOwner,      \* the process whose server is bound to PORT, or NoProc
    listenCalls,    \* listenCalls[p]: number of app.listen calls p has made
    bindError,      \* bindError[p]: "" or the error code of p's failed bind
    exitCode,       \* exitCode[p]: -1 while running, else the exit status
    console,        \* console[p]: the lines p printed
    lastReq,        \* the latest request served
    lastRes,        \* the response it received
    lastBy,         \* the process that served it
    lastVia         \* "": none, "port": through PORT, "supertest": ephemeral port

\* The variables of the service processes.
svcVars == << pc, mode, app, portOwner, listenCalls, bindError,
              exitCode, console, lastReq, lastRes, lastBy, lastVia >>

\* The service running in its container, with requests in flight and the
\* container's health check (part_000 is the image's Dockerfile).
VARIABLES
    sPort,          \* the port the container's application listens on, 0: none
    sApp,           \* the router stack of the container's application
    slots,          \* slots[i]: a connection and the request in flight on it
    misses,         \* number of requests answered 404 so far
    health,         \* "none", "starting", "healthy", "unhealthy"
    probeFails,     \* consecutive failed health probes
    lastProbe       \* outcome of the latest probe: 0 none, -1 refused, else status

runVars == << sPort, sApp, slots, misses, health, probeFails, lastProbe >>

\* One run of the pipeline of the Jenkinsfile (lines 3-408).
VARIABLES
    jPhase,         \* "idle", "stages", "post", "done"
    jStage,         \* the stage the run is at, 1..NumStages+1
    jSub,           \* steps of the Checkout stage done so far
    jStatus,        \* jStatus[i]: "pending", "running", "passed", "failed",
                    \*   "aborted", "skipped" (when), "skippedFailure"
    jResult,        \* "", "SUCCESS", "FAILURE", "ABORTED"
    jEnv,           \* the environment variables the stages read
    jWs,            \* the workspace: the commit checked out and the files
    jIn,            \* what the run meets: credential store, test outcome, ...
    jPost,          \* steps of the post section done so far
    jArchived,      \* the files archived as artifacts
    jImages,        \* tags of the images in the local Docker daemon
    jPushed         \* tags pushed to the registry

pipeVars == << jPhase, jStage, jSub, jStatus, jResult, jEnv, jWs, jIn, jPost,
               jArchived, jImages, jPushed >>

vars == << expressMajor, svcVars, runVars, pipeVars >>

\* ----------------------------------------------------- Express: the router
\* express() (app.ts:3): an application whose router stack is empty.
CreateApp == <<>>

\* app.get(path, handler) (app.ts:6): appends a route layer that has a
\* handler for the method get only; sends is the body its handler sends.
AppGet(stack, path, text) ==
    Append(stack, [ path |-> path, methods |-> {"get"}, sends |-> <<text>> ])

\* The application after the module body of app.ts has run (lines 3-8).
LoadedApp == AppGet(CreateApp, <<"/">>, HelloText)

\* The path part of a request target: everything before the first "?".
Pathname(url) ==
    LET qs == { i \in 1..Len(url) : url[i] = "?" }
    IN  IF qs = {} THEN url
        ELSE SubSeq(url, 1, (CHOOSE i \in qs : \A j \in qs : i <= j) - 1)

\* A variant of MatchPath that matches every path the route's path is a
\* prefix of, as a mount point does.
MatchPathPrefix(layer, path) ==
    /\ Len(path) >= Len(layer.path)
    /\ SubSeq(path, 1, Len(layer.path)) = layer.path

\* Whether a route layer's path matches a request path.  Routing is not
\* strict: one trailing slash is optional.
MatchPath(layer, path) ==
    \/ path = layer.path
    \/ layer.path = <<"/">> /\ path = <<>>
    \/ layer.path # <<"/">> /\ path = layer.path \o <<"/">>

\* The method name as the router keys it.
Lower(m) ==
    CASE m = "GET" -> "get"
      [] m = "HEAD" -> "head"
      [] m = "POST" -> "post"
      [] m = "OPTIONS" -> "options"
      [] OTHER -> m

\* A variant of HandlesMethod for a route registered for all methods.
HandlesMethodAll(layer, m) == layer.methods # {}

\* Whether a route has a handler for a method: a route registered with
\* app.get also answers HEAD unless it has a handler of its own for head.
HandlesMethod(layer, m) ==
    LET name == IF Lower(m) = "head" /\ "head" \notin layer.methods
                THEN "get" ELSE Lower(m)
    IN  name \in layer.methods

\* The methods a route advertises in the automatic OPTIONS answer.
RouteOptions(layer) ==
    { IF n = "get" THEN "GET" ELSE IF n = "head" THEN "HEAD" ELSE n
        : n \in layer.methods }
    \cup (IF "get" \in layer.methods THEN {"HEAD"} ELSE {})

\* --------------------------------------------------- Express: res.send
\* Whether one tag of If-None-Match names the response's tag (weak
\* comparison: a leading W/ on either side is ignored).
TagMatches(m, etag) ==
    \/ m = etag
    \/ m = <<"W/">> \o etag
    \/ <<"W/">> \o m = etag

\* A variant of Fresh that lets If-Modified-Since pass when the response
\* has no Last-Modified to compare it with.
FreshNoDateCheck(major, h, etag, lastModified) ==
    LET named == \E i \in 1..Len(h.ifNoneMatch) : TagMatches(h.ifNoneMatch[i], etag)
    IN  IF h.ifModifiedSince = "" /\ h.ifNoneMatch = <<>> THEN FALSE
        ELSE IF h.cacheControl = "no-cache" THEN FALSE
        ELSE (h.ifNoneMatch # <<>> /\ h.ifNoneMatch # Star) => (etag # <<>> /\ named)

\* The freshness test res.send applies to the request headers, given the
\* response's ETag and Last-Modified (res.send sets no Last-Modified).
Fresh(major, h, etag, lastModified) ==
    LET named == \E i \in 1..Len(h.ifNoneMatch) : TagMatches(h.ifNoneMatch[i], etag)
        modifiedStale == lastModified = ""
    IN  IF h.ifModifiedSince = "" /\ h.ifNoneMatch = <<>> THEN FALSE
        ELSE IF h.cacheControl = "no-cache" THEN FALSE
        ELSE IF major >= 5
             THEN \* If-None-Match takes precedence over If-Modified-Since
                  IF h.ifNoneMatch # <<>>
                  THEN h.ifNoneMatch = Star \/ (etag # <<>> /\ named)
                  ELSE ~ modifiedStale
             ELSE /\ (h.ifNoneMatch # <<>> /\ h.ifNoneMatch # Star)
                        => (etag # <<>> /\ named)
                  /\ h.ifModifiedSince # "" => ~ modifiedStale

\* req.fresh: only GET and HEAD are validated, and only 2xx / 304 answers.
ReqFresh(major, req, status, etag) ==
    /\ req.method \in {"GET", "HEAD"}
    /\ (status >= 200 /\ status < 300) \/ status = 304
    /\ Fresh(major, req.headers, etag, "")

\* A variant of Send that ends the body with a line break.
SendNewline(major, req, body) ==
    LET etag == ETagOf(body)
        status == IF ReqFresh(major, req, 200, etag) THEN 304 ELSE 200
    IN  [ status |-> status,
          body |-> IF status = 304 \/ req.method = "HEAD" THEN <<>>
                   ELSE body \o <<"\n">>,
          contentType |-> IF status = 304 THEN <<>>
                          ELSE <<"text/html", "charset=utf-8">>,
          etag |-> etag,
          allow |-> {} ]

\* A variant of Send that writes the body for HEAD requests too.
SendBodyOnHead(major, req, body) ==
    LET etag == ETagOf(body)
        status == IF ReqFresh(major, req, 200, etag) THEN 304 ELSE 200
    IN  [ status |-> status,
          body |-> IF status = 304 THEN <<>> ELSE body,
          contentType |-> IF status = 304 THEN <<>>
                          ELSE <<"text/html", "charset=utf-8">>,
          etag |-> etag,
          allow |-> {} ]

\* A variant of Send that labels a string body as plain text.
SendPlain(major, req, body) ==
    LET etag == ETagOf(body)
        status == IF ReqFresh(major, req, 200, etag) THEN 304 ELSE 200
    IN  [ status |-> status,
          body |-> IF status = 304 \/ req.method = "HEAD" THEN <<>> ELSE body,
          contentType |-> IF status = 304 THEN <<>>
                          ELSE <<"text/plain", "charset=utf-8">>,
          etag |-> etag,
          allow |-> {} ]

\* res.send(string) (app.ts:7): Content-Type defaults to text/html with
\* charset utf-8, an ETag is generated from the body, a fresh conditional
\* request is answered 304 without entity headers and body, and a HEAD
\* request gets the headers without the body.
Send(major, req, body) ==
    LET etag == ETagOf(body)
        status == IF ReqFresh(major, req, 200, etag) THEN 304 ELSE 200
    IN  [ status |-> status,
          body |-> IF status = 304 \/ req.method = "HEAD" THEN <<>> ELSE body,
          contentType |-> IF status = 304 THEN <<>>
                          ELSE <<"text/html", "charset=utf-8">>,
          etag |-> etag,
          allow |-> {} ]

\* The automatic answer to OPTIONS on a path that has routes: status 200
\* with an Allow header.  Express 4 sends the list through res.send,
\* Express 5 writes it as text/plain.
OptionsResponse(major, req, options) ==
    IF major >= 5
    THEN [ status |-> 200, body |-> <<"GET, HEAD">>,
           contentType |-> <<"text/plain">>, etag |-> <<>>, allow |-> options ]
    ELSE [ Send(major, req, <<"GET,HEAD">>) EXCEPT !.allow = options ]

\* The default answer when no route handled the request: 404 with an HTML
\* page naming the method and the path (no body for HEAD).
FinalHandler(req) ==
    [ status |-> 404,
      body |-> IF req.method = "HEAD" THEN <<>>
               ELSE <<"Cannot ", req.method, " ">> \o Pathname(req.url),
      contentType |-> <<"text/html", "charset=utf-8">>,
      etag |-> <<>>,
      allow |-> {} ]

\* The application handling one request: the first layer whose path and
\* method match runs its handler (app.ts:6-8); failing that, OPTIONS on a
\* path with routes is answered automatically; failing that, 404.
Handle(major, stack, req) ==
    LET path == Pathname(req.url)
        matching == { i \in 1..Len(stack) : MatchPath(stack[i], path) }
        handling == { i \in matching : HandlesMethod(stack[i], req.method) }
        first == CHOOSE i \in handling : \A j \in handling : i <= j
        options == UNION { RouteOptions(stack[i]) : i \in matching }
    IN  IF handling # {} THEN Send(major, req, stack[first].sends)
        ELSE IF req.method = "OPTIONS" /\ options # {}
             THEN OptionsResponse(major, req, options)
        ELSE FinalHandler(req)

\* A variant of AppAfter for a handler that serves once: the layer that
\* answered is removed from the stack.
AppAfterOnce(stack, req) ==
    IF \E i \in 1..Len(stack) : /\ MatchPath(stack[i], Pathname(req.url))
                                /\ HandlesMethod(stack[i], req.method)
    THEN Tail(stack) ELSE stack

\* The router stack after a request was handled: the handler of app.ts
\* registers nothing and changes no setting.
AppAfter(stack, req) == stack

\* ------------------------------------------------------------ the process
\* A variant of IsMain without the entry-point guard.
IsMainAlways(m) == TRUE

\* require.main === module (app.ts:10): true only in the process that was
\* started on app.ts itself, false when another module imported it.
IsMain(m) == m = "main"

\* A variant of CanBind for a socket that shares its port.
CanBindAlways(owner) == TRUE

\* Whether a bind to PORT can succeed: no other server holds the port.
CanBind(owner) == owner = NoProc

\* ------------------------------------------- the container and the pipeline
\* Connections the running service handles at the same time.
MaxInflight == 2

\* Requests answered 404 that a run of the service counts.
MaxMisses == 2

Slots == 1..MaxInflight

\* part_000:30 EXPOSE 3000 and part_000:34, the port the health check probes
HealthPort == 3000

\* part_000:33 --retries=3
HealthRetries == 3

\* The requests clients send to the running service: with and without a
\* query, to the route and to a path without one, conditional or not.
ConcRequests ==
    { r \in Requests :
        /\ r.method \in {"GET", "POST"}
        /\ r.url \in { <<"/">>, <<"/", "n", "o">> }
        /\ r.headers.cacheControl = "" /\ r.headers.ifModifiedSince = ""
        /\ r.headers.ifNoneMatch \in { <<>>, Star } }

\* A connection without a request.
IdleSlot == [ state |-> "idle", req |-> NoReq, res |-> NoRes, after |-> 0 ]

\* The container is not part of the behaviour.
RunIdle ==
    /\ sPort = 0
    /\ sApp = CreateApp
    /\ slots = [ i \in Slots |-> IdleSlot ]
    /\ misses = 0
    /\ health = "none"
    /\ probeFails = 0
    /\ lastProbe = 0

\* Jenkinsfile:57-301, the stages in their declared order.
StageNames ==
    << "Install System Tools", "Checkout", "Install Snyk",
       "Install Dependencies", "Run Unit Tests", "Security Scan - Snyk",
       "Build Docker Image", "Container Security Scan",
       "Push to Docker Registry", "Clean Up" >>

NumStages == Len(StageNames)

Stages == 1..NumStages

\* The index of the stage with a given name.
StageOf(name) == CHOOSE i \in Stages : StageNames[i] = name

\* A variable that is not set (null).
Null == ""

\* The environment before the run has bound anything.
NoEnv == [ SNYK_TOKEN |-> Null, DOCKER_CREDENTIALS_ID |-> Null,
           SEVERITY_THRESHOLD |-> Null, GIT_COMMIT |-> Null ]

\* What a run can meet: whether the two credentials exist in the Jenkins
\* credential store, how bun test ends ("absent": no tests found), whether
\* snyk test finds vulnerabilities at or above the threshold, whether
\* snyk auth accepts the token, whether the checkout has a Dockerfile.
Inputs ==
    [ snykCred : BOOLEAN, dockerCred : BOOLEAN,
      testOutcome : {"pass", "fail", "absent"},
      vulnerable : BOOLEAN, snykAuthOk : BOOLEAN, hasDockerfile : BOOLEAN ]

NoInputs ==
    [ snykCred |-> FALSE, dockerCred |-> FALSE, testOutcome |-> "absent",
      vulnerable |-> FALSE, snykAuthOk |-> FALSE, hasDockerfile |-> FALSE ]

\* The workspace an agent starts the run in: empty, or left behind by an
\* earlier build with that build's commit checked out.
EmptyWorkspace == [ head |-> Null, files |-> {} ]

StaleWorkspace == [ head |-> "c1", files |-> {} ]

\* The commit at the tip of the branch that checkout scm fetches.
ScmTip == "c2"

\* The pipeline is not part of the behaviour.
PipeIdle ==
    /\ jPhase = "idle"
    /\ jStage = 0
    /\ jSub = 0
    /\ jStatus = [ i \in Stages |-> "pending" ]
    /\ jResult = ""
    /\ jEnv = NoEnv
    /\ jWs = EmptyWorkspace
    /\ jIn = NoInputs
    /\ jPost = 0
    /\ jArchived = {}
    /\ jImages = {}
    /\ jPushed = {}

\* No process has loaded app.ts.
SvcIdle ==
    /\ pc = [ p \in Procs |-> "notStarted" ]
    /\ mode = [ p \in Procs |-> "" ]
    /\ app = [ p \in Procs |-> CreateApp ]
    /\ portOwner = NoProc
    /\ listenCalls = [ p \in Procs |-> 0 ]
    /\ bindError = [ p \in Procs |-> "" ]
    /\ exitCode = [ p \in Procs |-> -1 ]
    /\ console = [ p \in Procs |-> <<>> ]
    /\ lastReq = NoReq
    /\ lastRes = NoRes
    /\ lastBy = NoProc
    /\ lastVia = ""

Init ==
    /\ RunIdle
    /\ PipeIdle
    /\ expressMajor \in ExpressMajors
    /\ pc = [ p \in Procs |-> "notStarted" ]
    /\ mode = [ p \in Procs |-> "" ]
    /\ app = [ p \in Procs |-> CreateApp ]
    /\ portOwner = NoProc
    /\ listenCalls = [ p \in Procs |-> 0 ]
    /\ bindError = [ p \in Procs |-> "" ]
    /\ exitCode = [ p \in Procs |-> -1 ]
    /\ console = [ p \in Procs |-> <<>> ]
    /\ lastReq = NoReq
    /\ lastRes = NoRes
    /\ lastBy = NoProc
    /\ lastVia = ""

\* A process evaluates app.ts (lines 1-16), either as its entry point
\* (m = "main") or because the test file imported it (m = "imported"):
\* the application is created, the route is registered, and app.listen is
\* called only under the entry-point guard.
Run(p, m) ==
    /\ pc[p] = "notStarted"
    /\ mode' = [ mode EXCEPT ![p] = m ]
    /\ app' = [ app EXCEPT ![p] = LoadedApp ]
    /\ IF IsMain(m)
       THEN /\ pc' = [ pc EXCEPT ![p] = "binding" ]
            /\ listenCalls' = [ listenCalls EXCEPT ![p] = @ + 1 ]
       ELSE /\ pc' = [ pc EXCEPT ![p] = "imported" ]
            /\ UNCHANGED listenCalls
    /\ UNCHANGED << expressMajor, portOwner, bindError, exitCode, console,
                    lastReq, lastRes, lastBy, lastVia >>

\* The bind of app.listen(PORT, callback) succeeds: the server listens and
\* the callback prints the line of app.ts:12.
BindOk(p) ==
    /\ pc[p] = "binding"
    /\ CanBind(portOwner)
    /\ portOwner' = p
    /\ pc' = [ pc EXCEPT ![p] = "listening" ]
    /\ console' = [ console EXCEPT ![p] = Append(@, ListeningLine) ]
    /\ UNCHANGED << expressMajor, mode, app, listenCalls, bindError, exitCode,
                    lastReq, lastRes, lastBy, lastVia >>

\* The bind fails because the port is taken: the server emits an error
\* event.  app.ts registers no error listener.  Under Express 4 the event
\* is unhandled and the process dies with status 1.  Express 5 passes the
\* error to the listen callback; the callback of app.ts:11-13 takes no
\* argument, prints its line and returns, and the process, left with
\* nothing to wait for, ends with status 0.
BindFail(p) ==
    /\ pc[p] = "binding"
    /\ ~ CanBind(portOwner)
    /\ bindError' = [ bindError EXCEPT ![p] = "EADDRINUSE" ]
    /\ pc' = [ pc EXCEPT ![p] = "exited" ]
    /\ IF expressMajor >= 5
       THEN /\ console' = [ console EXCEPT ![p] = Append(@, ListeningLine) ]
            /\ exitCode' = [ exitCode EXCEPT ![p] = 0 ]
       ELSE /\ exitCode' = [ exitCode EXCEPT ![p] = 1 ]
            /\ UNCHANGED console
    /\ UNCHANGED << expressMajor, mode, app, portOwner, listenCalls,
                    lastReq, lastRes, lastBy, lastVia >>

\* A client sends a request to PORT; the listening process answers it.
HttpRequest(req) ==
    /\ portOwner # NoProc
    /\ lastReq' = req
    /\ lastRes' = Handle(expressMajor, app[portOwner], req)
    /\ lastBy' = portOwner
    /\ lastVia' = "port"
    /\ app' = [ app EXCEPT ![portOwner] = AppAfter(@, req) ]
    /\ UNCHANGED << expressMajor, pc, mode, portOwner, listenCalls, bindError,
                    exitCode, console >>

\* The test harness sends a request with request(app) (app.test.ts:8):
\* supertest serves the imported application on an ephemeral port for the
\* duration of the request; PORT is not involved.
SupertestRequest(p, req) ==
    /\ pc[p] = "imported"
    /\ lastReq' = req
    /\ lastRes' = Handle(expressMajor, app[p], req)
    /\ lastBy' = p
    /\ lastVia' = "supertest"
    /\ app' = [ app EXCEPT ![p] = AppAfter(@, req) ]
    /\ UNCHANGED << expressMajor, pc, mode, portOwner, listenCalls, bindError,
                    exitCode, console >>

Next ==
    \/ \E p \in Procs, m \in {"main", "imported"} :
          Run(p, m) /\ UNCHANGED << runVars, pipeVars >>
    \/ \E p \in Procs : BindOk(p) /\ UNCHANGED << runVars, pipeVars >>
    \/ \E p \in Procs : BindFail(p) /\ UNCHANGED << runVars, pipeVars >>
    \/ \E req \in Requests :
          HttpRequest(req) /\ UNCHANGED << runVars, pipeVars >>
    \/ \E p \in Procs, req \in Requests :
          SupertestRequest(p, req) /\ UNCHANGED << runVars, pipeVars >>

Spec == Init /\ [][Next]_vars

TypeOK ==
    /\ expressMajor \in ExpressMajors
    /\ pc \in [ Procs -> {"notStarted", "binding", "listening", "imported", "exited"} ]
    /\ mode \in [ Procs -> {"", "main", "imported"} ]
    /\ portOwner \in Procs \cup {NoProc}
    /\ lastReq \in Requests \cup {NoReq}
    /\ lastRes.status \in {0, 200, 304, 404}

\* ------------------------------------------------------------ properties
\* The latest exchange was a GET of the root path.
IsGetRoot == lastReq.method = "GET" /\ Pathname(lastReq.url) = <<"/">>

\* The latest exchange was a request (any method) for the root path.
IsRoot == lastReq # NoReq /\ Pathname(lastReq.url) = <<"/">>

\* A header value matches a media type if one of its parts is that type.
MatchesType(contentType, t) == \E i \in 1..Len(contentType) : contentType[i] = t

\* C1 as stated: every GET / is answered with status 200 whatever headers
\* it carries.  Refuted by GET / with If-None-Match: *, answered 304.
C1_AsStated == IsGetRoot => lastRes.status = 200

\* C1, amended: every GET / is answered with status 200 or, if it carries
\* an If-None-Match header, possibly with 304 Not Modified; a GET / without
\* If-None-Match is answered 200 whatever its other headers are and
\* whatever was served before it.
C1_GetRootStatus ==
    IsGetRoot =>
        /\ lastRes.status \in {200, 304}
        /\ lastReq.headers.ifNoneMatch = <<>> => lastRes.status = 200

C1_Witness ==
    /\ IsGetRoot
    /\ lastReq.headers.ifNoneMatch = <<>>
    /\ lastReq.headers.ifModifiedSince # ""
    /\ lastRes.status = 200

\* C2 as stated: the body of every GET / is exactly the literal.  Refuted
\* by a GET / that is answered 304, whose body is empty.
C2_AsStated == IsGetRoot => lastRes.body = <<HelloText>>

\* C2, amended: the body of every GET / answered with status 200 is exactly
\* "Hello from Express on Bun!", nothing before or after it; a GET /
\* answered 304 has an empty body.
C2_GetRootBody ==
    IsGetRoot =>
        /\ lastRes.status = 200 => lastRes.body = <<HelloText>>
        /\ lastRes.status = 304 => lastRes.body = <<>>

C2_Witness ==
    /\ IsGetRoot
    /\ lastRes.status = 200
    /\ Len(lastRes.body) = 1
    /\ lastRes.body[1] = HelloText

\* C3: a GET request to any path other than / is answered with status 404.
C3_GetOtherPath404 ==
    (lastReq.method = "GET" /\ Pathname(lastReq.url) # <<"/">>)
        => lastRes.status = 404

C3_Witness ==
    /\ lastReq.method = "GET"
    /\ lastReq.url = <<"/", "n", "o">>
    /\ lastRes.status = 404

\* C4 as stated: a request to / with any method other than GET is answered
\* with status 404.  Refuted by HEAD / and OPTIONS /, answered 200.
C4_AsStated == (IsRoot /\ lastReq.method # "GET") => lastRes.status = 404

\* C4, amended: a request to / with a method other than GET, HEAD and
\* OPTIONS is answered with status 404; HEAD / is answered as GET / is, but
\* without a body, and OPTIONS / is answered 200 with Allow: GET, HEAD.
C4_RootOtherMethods ==
    IsRoot =>
        /\ lastReq.method \notin {"GET", "HEAD", "OPTIONS"} => lastRes.status = 404
        /\ lastReq.method = "HEAD" =>
              lastRes.status \in {200, 304} /\ lastRes.body = <<>>
        /\ lastReq.method = "OPTIONS" =>
              lastRes.status = 200 /\ lastRes.allow = {"GET", "HEAD"}

C4_Witness ==
    /\ IsRoot
    /\ lastReq.method = "POST"
    /\ lastRes.status = 404

\* C5 as stated: a request to the root path returns the literal with status
\* 200 for any method and any headers.  Refuted by POST /, answered 404.
C5_AsStated ==
    IsRoot => (lastRes.status = 200 /\ lastRes.body = <<HelloText>>)

\* C5, amended: a GET request to the root path that carries no
\* If-None-Match header returns the literal with status 200 for any other
\* headers; a request to the root path with another method never returns
\* the literal.
C5_RootLiteral ==
    IsRoot =>
        /\ (lastReq.method = "GET" /\ lastReq.headers.ifNoneMatch = <<>>)
              => (lastRes.status = 200 /\ lastRes.body = <<HelloText>>)
        /\ lastReq.method # "GET" => lastRes.body # <<HelloText>>

C5_Witness ==
    /\ IsRoot
    /\ lastReq.method = "GET"
    /\ lastReq.headers = NoHeaders
    /\ lastReq.url = <<"/", "?", "x">>
    /\ lastRes.status = 200
    /\ lastRes.body = <<HelloText>>

C7_ListenOnlyAsMain ==
    \A p \in Procs :
        /\ portOwner = p => mode[p] = "main"
        /\ listenCalls[p] > 0 => mode[p] = "main"
        /\ mode[p] = "imported" => pc[p] = "imported"

C7_Witness ==
    \E p \in Procs :
        /\ mode[p] = "imported"
        /\ lastBy = p
        /\ lastVia = "supertest"
        /\ lastRes.status = 200
        /\ portOwner = NoProc

\* C8: handling a request changes nothing in the service (applications,
\* listener, processes), the response is the one a freshly loaded
\* application gives to that request, and a request identical to the one
\* before it gets the identical response.
C8_StatelessIdempotent ==
    [][ pc' = pc =>
          /\ app' = app
          /\ portOwner' = portOwner
          /\ mode' = mode
          /\ console' = console
          /\ exitCode' = exitCode
          /\ lastRes' = Handle(expressMajor, LoadedApp, lastReq')
          /\ lastReq' = lastReq => lastRes' = lastRes ]_vars

C8_Witness ==
    /\ IsGetRoot
    /\ lastVia = "port"
    /\ lastRes.status = 200
    /\ app[lastBy] = LoadedApp
    /\ \E p \in Procs : pc[p] = "imported" /\ app[p] = LoadedApp

\* C9: when an instance is started while another instance holds PORT, its
\* bind fails with the error EADDRINUSE and it does not get the port; the
\* first instance keeps the port, keeps listening and still answers GET /
\* with status 200.
C9_SecondBindFails ==
    [][ \A q \in Procs :
          (pc[q] = "binding" /\ pc'[q] # "binding" /\ portOwner # NoProc) =>
              /\ bindError'[q] = "EADDRINUSE"
              /\ pc'[q] = "exited"
              /\ portOwner' = portOwner
              /\ portOwner # q
              /\ pc'[portOwner] = "listening"
              /\ Handle(expressMajor, app'[portOwner],
                        [ method |-> "GET", url |-> <<"/">>,
                          headers |-> NoHeaders ]).status = 200 ]_vars

C9_Witness ==
    \E q \in Procs :
        /\ bindError[q] = "EADDRINUSE"
        /\ portOwner \notin {NoProc, q}
        /\ pc[portOwner] = "listening"
        /\ lastBy = portOwner
        /\ IsGetRoot
        /\ lastRes.status = 200

\* C10 as stated: a failed bind is fatal and not retried: the process has
\* called listen once, has terminated with a non-zero exit status and is
\* not serving.  Refuted with Express 5, where the process ends with
\* status 0 after printing that it is listening.
C10_AsStated ==
    \A p \in Procs :
        bindError[p] # "" =>
            /\ pc[p] = "exited"
            /\ exitCode[p] > 0
            /\ listenCalls[p] = 1
            /\ portOwner # p

\* ------------------------------------------- the service in its container
\* The plain request GET / that the health check and the tests send.
GetRoot == [ method |-> "GET", url |-> <<"/">>, headers |-> NoHeaders ]

\* A variant of PortAfter for a service that dies on a request it cannot
\* route.
PortAfterMissFatal(port, res) == IF res.status = 404 THEN 0 ELSE port

\* The port the process listens on after it answered a request: the
\* handler (app.ts:6-8) and the default 404 answer end the response and
\* throw nothing, so the process keeps its listener.
PortAfter(port, res) == port

\* What a client that connects to a port of the container gets for a
\* request: the application's answer if the application listens on that
\* port, else a refused connection (-1).
ProbeStatus(major, listenPort, stack, port, req) ==
    IF listenPort # 0 /\ listenPort = port
    THEN Handle(major, stack, req).status
    ELSE -1

\* The container starts the application as the entry point: the module
\* body runs and app.listen(PORT) binds the port, which nothing else in the
\* container holds.
ContainerStart ==
    /\ sPort = 0
    /\ health = "none"
    /\ sApp' = LoadedApp
    /\ sPort' = PORT
    /\ health' = "starting"
    /\ UNCHANGED << slots, misses, probeFails, lastProbe >>

\* A client's request arrives on a free connection to PORT.
Accept(i, req) ==
    /\ sPort = PORT
    /\ slots[i].state = "idle"
    /\ slots' = [ slots EXCEPT ![i] = [ IdleSlot EXCEPT !.state = "pending",
                                                        !.req = req ] ]
    /\ UNCHANGED << sPort, sApp, misses, health, probeFails, lastProbe >>

\* The event loop runs the application on one pending request, from the
\* routing to the end of the response; the handler is synchronous, so this
\* is one step.  Requests are taken in any order.
Dispatch(i) ==
    LET res == Handle(expressMajor, sApp, slots[i].req)
    IN  /\ sPort = PORT
        /\ slots[i].state = "pending"
        /\ res.status = 404 => misses < MaxMisses
        /\ slots' = [ slots EXCEPT ![i] = [ @ EXCEPT !.state = "done",
                                                     !.res = res,
                                                     !.after = misses ] ]
        /\ misses' = IF res.status = 404 THEN misses + 1 ELSE misses
        /\ sApp' = AppAfter(sApp, slots[i].req)
        /\ sPort' = PortAfter(sPort, res)
        /\ UNCHANGED << health, probeFails, lastProbe >>

\* The client has read the response; the connection is free again.
Deliver(i) ==
    /\ slots[i].state = "done"
    /\ slots' = [ slots EXCEPT ![i] = IdleSlot ]
    /\ UNCHANGED << sPort, sApp, misses, health, probeFails, lastProbe >>

\* The HEALTHCHECK command (part_000:33-34) runs in the container: it
\* requests http://localhost:3000/ and succeeds on status 200; a refused
\* connection ends it with a non-zero status.  After HealthRetries
\* consecutive failures the container is unhealthy.
HealthProbe ==
    LET status == ProbeStatus(expressMajor, sPort, sApp, HealthPort, GetRoot)
        fails == IF probeFails < HealthRetries THEN probeFails + 1
                 ELSE HealthRetries
    IN  /\ sPort # 0
        /\ lastProbe' = status
        /\ IF status = 200
           THEN /\ health' = "healthy"
                /\ probeFails' = 0
           ELSE /\ probeFails' = fails
                /\ health' = IF fails >= HealthRetries THEN "unhealthy"
                             ELSE health
        /\ UNCHANGED << sPort, sApp, slots, misses >>

ServingInit ==
    /\ expressMajor \in ExpressMajors
    /\ SvcIdle
    /\ PipeIdle
    /\ RunIdle

ServingNext ==
    \/ ContainerStart /\ UNCHANGED << expressMajor, svcVars, pipeVars >>
    \/ \E i \in Slots, req \in ConcRequests :
          Accept(i, req) /\ UNCHANGED << expressMajor, svcVars, pipeVars >>
    \/ \E i \in Slots :
          Dispatch(i) /\ UNCHANGED << expressMajor, svcVars, pipeVars >>
    \/ \E i \in Slots :
          Deliver(i) /\ UNCHANGED << expressMajor, svcVars, pipeVars >>
    \/ HealthProbe /\ UNCHANGED << expressMajor, svcVars, pipeVars >>

SpecServing == ServingInit /\ [][ServingNext]_vars

\* C11: whatever requests are in flight together and in whatever order
\* they are dispatched, the response of each is the one the freshly loaded
\* application gives to that request alone, and dispatching a request
\* leaves the application as it was.
C11_NoInterference ==
    /\ sPort # 0 => sApp = LoadedApp
    /\ \A i \in Slots :
          slots[i].state = "done" =>
              slots[i].res = Handle(expressMajor, LoadedApp, slots[i].req)

C11_Witness ==
    \E i, j \in Slots :
        /\ i # j
        /\ slots[i].state = "done" /\ slots[j].state = "done"
        /\ slots[i].req = GetRoot /\ slots[i].res.status = 200
        /\ slots[j].req.method = "POST" /\ slots[j].res.status = 404
        /\ slots[i].after > 0

\* C12: a request that matches no route is answered 404 and the service
\* goes on: after any number of such requests the process still listens
\* on PORT and a GET / dispatched after them is answered with status 200.
C12_MissIsNotFailure ==
    /\ misses > 0 => (sPort = PORT /\ Handle(expressMajor, sApp, GetRoot).status = 200)
    /\ \A i \in Slots :
          (slots[i].state = "done" /\ slots[i].req = GetRoot)
              => slots[i].res.status = 200

C12_Witness ==
    /\ misses = MaxMisses
    /\ sPort = PORT
    /\ \E i \in Slots :
          /\ slots[i].state = "done"
          /\ slots[i].req = GetRoot
          /\ slots[i].after = MaxMisses
          /\ slots[i].res.status = 200

\* C13 as stated: while the service runs in the container, the health
\* check reaches the service's listener and gets status 200, so the
\* container is not reported unhealthy.  Refuted: the probe goes to port
\* 3000, the application listens on 8000, the connection is refused.
C13_AsStated ==
    (sPort # 0 /\ lastProbe # 0) => (lastProbe = 200 /\ health = "healthy")

\* ------------------------------------------------------------ the pipeline
SInstallTools == StageOf("Install System Tools")
SCheckout == StageOf("Checkout")
SInstallSnyk == StageOf("Install Snyk")
SInstallDeps == StageOf("Install Dependencies")
STests == StageOf("Run Unit Tests")
SSnyk == StageOf("Security Scan - Snyk")
SBuild == StageOf("Build Docker Image")
SContainerScan == StageOf("Container Security Scan")
SPush == StageOf("Push to Docker Registry")
SCleanUp == StageOf("Clean Up")

\* The environment block (Jenkinsfile:19-36): the credential's secret is
\* bound to SNYK_TOKEN, the other variables are literals.
BoundEnv ==
    [ SNYK_TOKEN |-> "snyk-api-token-secret",
      DOCKER_CREDENTIALS_ID |-> "docker-hub-credentials",
      SEVERITY_THRESHOLD |-> "high",
      GIT_COMMIT |-> Null ]

\* The when condition of a stage (lines 142-144, 224-226, 251-253); a
\* stage without one always qualifies.
WhenHolds(i, env) ==
    IF i \in {SSnyk, SContainerScan} THEN env.SNYK_TOKEN # Null
    ELSE IF i = SPush THEN env.DOCKER_CREDENTIALS_ID # Null
    ELSE TRUE

\* A variant of StageDecision that looks at the when condition only.
StageDecisionWhenOnly(i, result, env) ==
    IF WhenHolds(i, env) THEN "running" ELSE "skipped"

\* What happens to a stage when the run reaches it (stages, line 57): it
\* is skipped if an earlier stage failed or aborted the run, skipped if
\* its when condition is false, and run otherwise.
StageDecision(i, result, env) ==
    IF result # "" THEN "skippedFailure"
    ELSE IF WhenHolds(i, env) THEN "running"
    ELSE "skipped"

\* The exit status of a shell script "cmd [| tee file] [|| true]": a
\* pipeline ends with the status of its last command (tee, which succeeds),
\* and || true turns a failure into success.
ShExit(cmdExit, piped, orTrue) ==
    LET pipeStatus == IF piped THEN 0 ELSE cmdExit
    IN  IF orTrue /\ pipeStatus # 0 THEN 0 ELSE pipeStatus

\* Whether the sh step throws: on a non-zero status, unless the step was
\* asked to return the status.
ShThrows(status, returnStatus) == status # 0 /\ ~ returnStatus

\* The exit status of bun test for each outcome of the tests.
TestExit(outcome) == IF outcome = "pass" THEN 0 ELSE 1

\* A variant of UnitTestsResult in which a failing test command fails the
\* stage.
UnitTestsResultStrict(outcome) ==
    IF TestExit(outcome) = 0 THEN "passed" ELSE "failed"

\* The result of the steps of Run Unit Tests (lines 122-135): the test
\* command is piped into tee inside try, and the catch block only echoes.
UnitTestsResult(outcome) ==
    LET status == ShExit(TestExit(outcome), TRUE, FALSE)
        thrown == ShThrows(status, FALSE)
        caught == thrown
    IN  IF thrown /\ ~ caught THEN "failed" ELSE "passed"

\* snykResult (lines 172-175): the status of the snyk test script, which
\* is piped into tee and ends with || true, taken with returnStatus.
SnykResult(vulnerable) == ShExit(IF vulnerable THEN 1 ELSE 0, TRUE, TRUE)

\* The result of the steps of Security Scan - Snyk (lines 146-189): a
\* failed snyk auth is caught and the scan left out; otherwise the scan
\* runs and error is called if snykResult is not 0.
SnykStageResult(authOk, vulnerable) ==
    IF ~ authOk THEN "passed"
    ELSE IF SnykResult(vulnerable) # 0 THEN "failed"
    ELSE "passed"

\* The files the artifacts pattern of archiveArtifacts (lines 314-320)
\* selects.
Archivable(f) ==
    f \in { "snyk-report.json", "snyk-container-report.json", "snyk-scan.log",
            "snyk-container-scan.log", "dependency-install.log",
            "test-results.log" }

\* A variant of CleanWhen that cleans after successful builds only.
CleanWhenSuccess(result) == result = "SUCCESS"

\* cleanWs (lines 380-389) cleans after every result: cleanWhenAborted,
\* cleanWhenFailure, cleanWhenNotBuilt, cleanWhenSuccess and
\* cleanWhenUnstable are all true.
CleanWhen(result) == result \in {"SUCCESS", "FAILURE", "ABORTED", "UNSTABLE", "NOT_BUILT"}

\* The number of steps of the post section: the archive and the cleaning
\* of the always block, then the block of the build's result.
PostSteps == 3

Running(i) == jPhase = "stages" /\ jStage = i /\ jStatus[i] = "running"

\* Stage i ends with status st: a failure or an abort sets the build's
\* result, the run moves to the next stage and, after the last one, to
\* the post section.
EndStage(i, st) ==
    /\ jStatus' = [ jStatus EXCEPT ![i] = st ]
    /\ jResult' = IF st = "failed" THEN "FAILURE"
                  ELSE IF st = "aborted" THEN "ABORTED"
                  ELSE IF i = NumStages /\ jResult = "" THEN "SUCCESS"
                  ELSE jResult
    /\ jStage' = i + 1
    /\ jPhase' = IF i = NumStages THEN "post" ELSE "stages"

PipeInit ==
    /\ expressMajor \in ExpressMajors
    /\ SvcIdle
    /\ RunIdle
    /\ jPhase = "start"
    /\ jStage = 0
    /\ jSub = 0
    /\ jStatus = [ i \in Stages |-> "pending" ]
    /\ jResult = ""
    /\ jEnv = NoEnv
    /\ jWs \in { EmptyWorkspace, StaleWorkspace }
    /\ jIn \in Inputs
    /\ jPost = 0
    /\ jArchived = {}
    /\ jImages = {}
    /\ jPushed = {}

\* The run starts: the environment block is bound.  credentials() on an
\* id the store does not have ends the run there, before any stage and
\* before the post section, which runs inside the bound environment.
StartRun ==
    /\ jPhase = "start"
    /\ IF jIn.snykCred
       THEN /\ jEnv' = BoundEnv
            /\ jPhase' = "stages"
            /\ jStage' = 1
            /\ UNCHANGED jResult
       ELSE /\ jResult' = "FAILURE"
            /\ jPhase' = "done"
            /\ UNCHANGED << jEnv, jStage >>
    /\ UNCHANGED << jSub, jStatus, jWs, jIn, jPost, jArchived, jImages, jPushed >>

\* The run reaches stage i.
BeginStage(i) ==
    LET decision == StageDecision(i, jResult, jEnv)
    IN  /\ jPhase = "stages"
        /\ jStage = i
        /\ jStatus[i] = "pending"
        /\ IF decision = "running"
           THEN /\ jStatus' = [ jStatus EXCEPT ![i] = "running" ]
                /\ UNCHANGED << jPhase, jStage, jResult >>
           ELSE EndStage(i, decision)
        /\ UNCHANGED << jSub, jEnv, jWs, jIn, jPost, jArchived, jImages, jPushed >>

\* options { timeout(30 minutes) } (line 41) expires while a stage runs:
\* the stage is aborted and the build's result is ABORTED.
Timeout ==
    /\ jPhase = "stages"
    /\ jStage \in Stages
    /\ jStatus[jStage] = "running"
    /\ EndStage(jStage, "aborted")
    /\ UNCHANGED << jSub, jEnv, jWs, jIn, jPost, jArchived, jImages, jPushed >>

\* Install System Tools (lines 60-69): apk add, which can fail.
InstallSystemTools ==
    /\ Running(SInstallTools)
    /\ \E ok \in BOOLEAN :
          EndStage(SInstallTools, IF ShThrows(IF ok THEN 0 ELSE 1, FALSE)
                                  THEN "failed" ELSE "passed")
    /\ UNCHANGED << jSub, jEnv, jWs, jIn, jPost, jArchived, jImages, jPushed >>

\* Checkout, first script block (lines 73-81): git rev-parse HEAD is run
\* in the workspace as the agent found it (skipDefaultCheckout, line 45)
\* and its output becomes env.GIT_COMMIT; in a workspace without a
\* repository the command fails and so does the stage.
CheckoutRevParse ==
    /\ Running(SCheckout)
    /\ jSub = 0
    /\ IF jWs.head = Null
       THEN /\ EndStage(SCheckout, "failed")
            /\ UNCHANGED << jEnv, jSub >>
       ELSE /\ jEnv' = [ jEnv EXCEPT !.GIT_COMMIT = jWs.head ]
            /\ jSub' = 1
            /\ UNCHANGED << jPhase, jStage, jStatus, jResult >>
    /\ UNCHANGED << jWs, jIn, jPost, jArchived, jImages, jPushed >>

\* Checkout, checkout scm (line 83): the tip of the branch is fetched into
\* the workspace.
CheckoutScm ==
    /\ Running(SCheckout)
    /\ jSub = 1
    /\ \E ok \in BOOLEAN :
          IF ok
          THEN /\ jWs' = [ head |-> ScmTip,
                           files |-> IF jIn.hasDockerfile THEN {"Dockerfile"}
                                     ELSE {} ]
               /\ jSub' = 2
               /\ EndStage(SCheckout, "passed")
          ELSE /\ EndStage(SCheckout, "failed")
               /\ UNCHANGED << jWs, jSub >>
    /\ UNCHANGED << jEnv, jIn, jPost, jArchived, jImages, jPushed >>

\* Install Snyk (lines 91-99): curl and chmod, which can fail.
InstallSnyk ==
    /\ Running(SInstallSnyk)
    /\ \E ok \in BOOLEAN :
          EndStage(SInstallSnyk, IF ShThrows(IF ok THEN 0 ELSE 1, FALSE)
                                 THEN "failed" ELSE "passed")
    /\ UNCHANGED << jSub, jEnv, jWs, jIn, jPost, jArchived, jImages, jPushed >>

\* Install Dependencies (lines 102-117): bun install piped into tee.
InstallDependencies ==
    /\ Running(SInstallDeps)
    /\ \E ok \in BOOLEAN :
          EndStage(SInstallDeps,
                   IF ShThrows(ShExit(IF ok THEN 0 ELSE 1, TRUE, FALSE), FALSE)
                   THEN "failed" ELSE "passed")
    /\ jWs' = [ jWs EXCEPT !.files = @ \cup {"dependency-install.log"} ]
    /\ UNCHANGED << jSub, jEnv, jIn, jPost, jArchived, jImages, jPushed >>

\* Run Unit Tests (lines 120-137).
RunUnitTests ==
    /\ Running(STests)
    /\ EndStage(STests, UnitTestsResult(jIn.testOutcome))
    /\ jWs' = [ jWs EXCEPT !.files = @ \cup {"test-results.log"} ]
    /\ UNCHANGED << jSub, jEnv, jIn, jPost, jArchived, jImages, jPushed >>

\* Security Scan - Snyk (lines 140-191).
SnykScan ==
    /\ Running(SSnyk)
    /\ EndStage(SSnyk, SnykStageResult(jIn.snykAuthOk, jIn.vulnerable))
    /\ jWs' = [ jWs EXCEPT !.files =
                  IF jIn.snykAuthOk
                  THEN @ \cup {"snyk-report.json", "snyk-scan.log"} ELSE @ ]
    /\ UNCHANGED << jSub, jEnv, jIn, jPost, jArchived, jImages, jPushed >>

\* Build Docker Image (lines 194-219): with a Dockerfile the image is
\* built and tagged with env.GIT_COMMIT and latest (the build can fail);
\* without one the stage only warns.
BuildDockerImage ==
    /\ Running(SBuild)
    /\ IF "Dockerfile" \in jWs.files
       THEN \E ok \in BOOLEAN :
               IF ok
               THEN /\ jImages' = { jEnv.GIT_COMMIT, "latest" }
                    /\ EndStage(SBuild, "passed")
               ELSE /\ EndStage(SBuild, "failed")
                    /\ UNCHANGED jImages
       ELSE /\ EndStage(SBuild, "passed")
            /\ UNCHANGED jImages
    /\ UNCHANGED << jSub, jEnv, jWs, jIn, jPost, jArchived, jPushed >>

\* Container Security Scan (lines 222-246): the scan ends with || true
\* inside try; whatever it finds, the stage passes.
ContainerScan ==
    /\ Running(SContainerScan)
    /\ \E found \in BOOLEAN :
          EndStage(SContainerScan,
                   IF ShThrows(ShExit(IF found THEN 1 ELSE 0, TRUE, TRUE), FALSE)
                   THEN "failed" ELSE "passed")
    /\ jWs' = [ jWs EXCEPT !.files =
                  @ \cup {"snyk-container-report.json", "snyk-container-scan.log"} ]
    /\ UNCHANGED << jSub, jEnv, jIn, jPost, jArchived, jImages, jPushed >>

\* Push to Docker Registry (lines 249-280): withRegistry logs in with the
\* credential named by DOCKER_CREDENTIALS_ID and pushes both tags; any
\* failure (no such credential, no image, network) is caught and echoed.
PushImage ==
    /\ Running(SPush)
    /\ \E ok \in BOOLEAN :
          jPushed' = IF jIn.dockerCred /\ ok THEN jImages ELSE jPushed
    /\ EndStage(SPush, "passed")
    /\ UNCHANGED << jSub, jEnv, jWs, jIn, jPost, jArchived, jImages >>

\* Clean Up (lines 283-300): docker rmi and prune, each with || true.
CleanUp ==
    /\ Running(SCleanUp)
    /\ jImages' = {}
    /\ EndStage(SCleanUp,
                IF ShThrows(ShExit(1, FALSE, TRUE), FALSE) THEN "failed"
                ELSE "passed")
    /\ UNCHANGED << jSub, jEnv, jWs, jIn, jPost, jArchived, jPushed >>

\* post always, archiveArtifacts (lines 314-321).
PostArchive ==
    /\ jPhase = "post"
    /\ jPost = 0
    /\ jArchived' = { f \in jWs.files : Archivable(f) }
    /\ jPost' = 1
    /\ UNCHANGED << jPhase, jStage, jSub, jStatus, jResult, jEnv, jWs, jIn,
                    jImages, jPushed >>

\* post always, cleanWs (lines 380-389), after the summary.
PostCleanWs ==
    /\ jPhase = "post"
    /\ jPost = 1
    /\ jWs' = IF CleanWhen(jResult) THEN EmptyWorkspace ELSE jWs
    /\ jPost' = 2
    /\ UNCHANGED << jPhase, jStage, jSub, jStatus, jResult, jEnv, jIn,
                    jArchived, jImages, jPushed >>

\* The block of the build's result (success, failure; lines 392-407) ends
\* the run.
PostCondition ==
    /\ jPhase = "post"
    /\ jPost = 2
    /\ jPost' = PostSteps
    /\ jPhase' = "done"
    /\ UNCHANGED << jStage, jSub, jStatus, jResult, jEnv, jWs, jIn,
                    jArchived, jImages, jPushed >>

PipeNext ==
    \/ StartRun /\ UNCHANGED << expressMajor, svcVars, runVars >>
    \/ \E i \in Stages : BeginStage(i) /\ UNCHANGED << expressMajor, svcVars, runVars >>
    \/ Timeout /\ UNCHANGED << expressMajor, svcVars, runVars >>
    \/ InstallSystemTools /\ UNCHANGED << expressMajor, svcVars, runVars >>
    \/ CheckoutRevParse /\ UNCHANGED << expressMajor, svcVars, runVars >>
    \/ CheckoutScm /\ UNCHANGED << expressMajor, svcVars, runVars >>
    \/ InstallSnyk /\ UNCHANGED << expressMajor, svcVars, runVars >>
    \/ InstallDependencies /\ UNCHANGED << expressMajor, svcVars, runVars >>
    \/ RunUnitTests /\ UNCHANGED << expressMajor, svcVars, runVars >>
    \/ SnykScan /\ UNCHANGED << expressMajor, svcVars, runVars >>
    \/ BuildDockerImage /\ UNCHANGED << expressMajor, svcVars, runVars >>
    \/ ContainerScan /\ UNCHANGED << expressMajor, svcVars, runVars >>
    \/ PushImage /\ UNCHANGED << expressMajor, svcVars, runVars >>
    \/ CleanUp /\ UNCHANGED << expressMajor, svcVars, runVars >>
    \/ PostArchive /\ UNCHANGED << expressMajor, svcVars, runVars >>
    \/ PostCleanWs /\ UNCHANGED << expressMajor, svcVars, runVars >>
    \/ PostCondition /\ UNCHANGED << expressMajor, svcVars, runVars >>

\* Jenkins keeps executing a run that has a step to execute.
SpecPipeline == PipeInit /\ [][PipeNext]_vars /\ WF_vars(PipeNext)

\* The statuses of a stage whose steps were entered.
Entered == {"running", "passed", "failed", "aborted"}

\* The statuses of a stage the run is through with.
Finished == {"passed", "failed", "aborted", "skipped", "skippedFailure"}

\* C14 as stated: if snyk test finds vulnerabilities at or above the
\* threshold, the Snyk stage fails the pipeline and neither Build Docker
\* Image nor Push to Docker Registry runs.  Refuted: the scan's status is
\* always 0, the stage passes and the image is built and pushed.
C14_AsStated ==
    (jIn.vulnerable /\ jIn.snykAuthOk
        /\ jStatus[SSnyk] \in {"passed", "failed"}) =>
            /\ jStatus[SSnyk] = "failed"
            /\ jStatus[SBuild] \notin Entered
            /\ jStatus[SPush] \notin Entered

\* C15: the stages are gone through in their declared order: a stage is
\* reached only when every earlier stage has finished or been skipped, at
\* most one stage runs at a time, and once a stage has failed (or the run
\* was aborted in it) no later stage runs.
C15_StagesInOrder ==
    \A i \in Stages :
        /\ jStatus[i] # "pending" =>
              \A k \in Stages : k < i => jStatus[k] \in Finished
        /\ jStatus[i] \in {"failed", "aborted"} =>
              \A k \in Stages : k > i => jStatus[k] \in {"pending", "skippedFailure"}
        /\ jStatus[i] = "running" => (jPhase = "stages" /\ jStage = i)

C15_Witness ==
    /\ jStatus[SSnyk] = "passed"
    /\ jStatus[SBuild] = "failed"
    /\ jStatus[SContainerScan] = "skippedFailure"
    /\ jStatus[SCleanUp] = "skippedFailure"
    /\ jPhase = "done"

C17_TestsNeverFail ==
    /\ jStatus[STests] # "failed"
    /\ jStatus[STests] \in Finished \ {"aborted", "skippedFailure"} =>
          /\ jStatus[STests] = "passed"
          /\ jStage > STests => jStatus[SSnyk] # "skippedFailure"
          /\ (jStage = SSnyk /\ jPhase = "stages") => jResult = ""

C17_Witness ==
    /\ jIn.testOutcome = "fail"
    /\ jStatus[STests] = "passed"
    /\ jStatus[SSnyk] = "running"

\* C18 as stated: a credential-gated stage runs only if its credential is
\* there and is skipped, not failed, when it is absent, the run going on
\* to the next stage.  Refuted: without the Docker credential the push
\* stage is run all the same, and without the Snyk credential the run
\* ends before its first stage.
C18_AsStated ==
    /\ jStatus[SPush] \in Entered => jIn.dockerCred
    /\ (~ jIn.snykCred /\ jPhase = "done") =>
          /\ jStatus[SSnyk] = "skipped"
          /\ jStatus[SContainerScan] = "skipped"
          /\ jStatus[SCleanUp] \in Finished

\* C19 as stated: env.GIT_COMMIT is read after the source was checked
\* out, so it names the commit in the workspace.  Refuted: git rev-parse
\* HEAD runs before checkout scm.
C19_AsStated ==
    jEnv.GIT_COMMIT # Null => (jSub = 2 /\ jEnv.GIT_COMMIT = jWs.head)

====
